---- MODULE Spec2Model ----
(***************************************************************************)
(* flask_lac: session-backed authentication state (User), auth-service     *)
(* response validation (AuthServiceResponse), the route guards and the     *)
(* /login, /auth_callback and /logout handlers, as a state machine.        *)
(*                                                                         *)
(* One browser session is modelled.  Requests of the session are handled   *)
(* one at a time: a handler runs, then the request ends (its User and its  *)
(* response are gone).  A guarded request takes two steps (the User is     *)
(* built, then the guard decides).  The re-verification threads started    *)
(* by User.__init__ run between requests, and the thread a request started *)
(* also between the two steps of that request.                             *)
(*                                                                         *)
(* Python values: None is the string "None", a missing mapping key is      *)
(* "absent", True/False stored in the session are "True"/"False".  The     *)
(* session key "modified", which the code sets and never reads, is left    *)
(* out.                                                                    *)
(***************************************************************************)
EXTENDS Integers, Sequences, FiniteSets, TLC

VARIABLES
    now,        \* datetime.now(): the wall clock
    session,    \* flask.session: the session record
    user,       \* the User instance of the request in progress / last handled
    threads,    \* the live verify_periodically threads, each with the User it closes over
    req,        \* the request in progress (a guarded request between its two steps)
    op,         \* the last operation performed, with its inputs and the session it started from
    resp,       \* the response the last finished request returned to the framework
    last_next   \* history: the next parameter the most recent /login received
                \* ("absent" before any /login)

vars == <<now, session, user, threads, req, op, resp, last_next>>

\* ------------------------------------------------------------------ bounds

MaxTime == 1
MaxThreads == 2
MaxRole == 4

\* ------------------------------------------------------------------ values

None == "None"
Absent == "absent"
PyTrue == "True"
PyFalse == "False"

Tokens == {"t1"}
Urls == {"/a"}

Times == 0..MaxTime

\* A session expiry is a string.  fmt "rfc1123" is a string that matches
\* "%a, %d %b %Y %H:%M:%S %Z" and spells the time t; fmt "iso" is a string in
\* another format (it does not match).
AbsentExpiry == [fmt |-> Absent, t |-> 0]
ExpiryStrings == [fmt : {"rfc1123"}, t : Times] \cup {[fmt |-> "iso", t |-> 1]}

\* User._expiry: None, or the datetime strptime returned.
NoneExpiry == [fmt |-> None, t |-> 0]
DateTime(t) == [fmt |-> "datetime", t |-> t]

\* A role as the service sends it: missing/null, an integer, a numeric string,
\* or a string that is not a number.
RoleNone == [k |-> None, n |-> 0]
Roles == {RoleNone, [k |-> "word", n |-> 0], [k |-> "str", n |-> MaxRole - 1]}
            \cup [k : {"int"}, n : 2..MaxRole]

\* user_info: None, or a mapping with username and role.
NoneInfo == [k |-> None, username |-> None, role |-> RoleNone]
AbsentInfo == [k |-> Absent, username |-> None, role |-> RoleNone]
Info(name, role) == [k |-> "dict", username |-> name, role |-> role]
Infos == {Info("a", r) : r \in Roles} \cup {Info("b", [k |-> "int", n |-> MaxRole - 1])}

\* ------------------------------------------------------------------ the auth service

StatusCodes == {200, 500}
StatusTags == {"OK", "TOKEN_EXPIRED", "INVALID", Absent}

\* What requests.post gives: a transport failure (requests.RequestException), or a
\* response with a status code and a JSON body.
ConnErr == [err |-> TRUE, status |-> 0, sm |-> Absent, user_info |-> AbsentInfo,
            expiry |-> AbsentExpiry]

HttpResp(c, s, ui, e) == [err |-> FALSE, status |-> c, sm |-> s, user_info |-> ui,
                          expiry |-> e]

\* POST /user_info: any profile with status 200 and "OK"; with the other tags a
\* body with or without a profile; with status 500 or "INVALID" one body each (the
\* profile in it is never read).
InfoResponses == {ConnErr}
    \cup {HttpResp(500, s, AbsentInfo, AbsentExpiry) : s \in {"OK", Absent}}
    \cup {HttpResp(200, "OK", ui, AbsentExpiry) : ui \in Infos \cup {AbsentInfo}}
    \cup {HttpResp(200, s, ui, AbsentExpiry) :
             s \in {"TOKEN_EXPIRED", Absent}, ui \in {AbsentInfo, Info("a", RoleNone)}}
    \cup {HttpResp(200, "INVALID", AbsentInfo, AbsentExpiry)}

\* POST /verify: every status and tag without an expiry in the body, and every
\* expiry with the statuses and tags of a body whose expiry is read.
VerifyResponses == {ConnErr}
    \cup {HttpResp(c, s, AbsentInfo, AbsentExpiry) : c \in StatusCodes, s \in StatusTags}
    \cup {HttpResp(200, s, AbsentInfo, e) : s \in StatusTags \ {"INVALID"}, e \in ExpiryStrings}
    \cup {HttpResp(500, "OK", AbsentInfo, e) : e \in ExpiryStrings}

\* response.raise_for_status(): HTTPError for 4xx and 5xx.
RaisesForStatus(r) == r.status >= 400

\* ------------------------------------------------------------------ the session record

Sessions == [token : Tokens \cup {None, Absent},
             expiry : ExpiryStrings \cup {AbsentExpiry},
             logged_in : {PyTrue, PyFalse, Absent},
             next : Urls \cup {None, Absent}]

\* A new browser session: no key is set.
EmptySession == [token |-> Absent, expiry |-> AbsentExpiry, logged_in |-> Absent,
                 next |-> Absent]

\* ------------------------------------------------------------------ AuthServiceResponse

\* What url_for/redirect return inside status_machine: a Response object, never a string tag.
RedirectObject == "<Response 302>"

\* The status_machine property: a redirect object for TOKEN_EXPIRED, the default
\* "ERROR" for a body without the key.
StatusMachine(r) ==
    IF r.sm = "TOKEN_EXPIRED" THEN RedirectObject
    ELSE IF r.sm = Absent THEN "ERROR" ELSE r.sm

\* Validate with hard_fail ignored: a failing response is only logged.
ValidateNeverRaises(r, hard_fail, sess, inRequest) ==
    IF r.sm = "TOKEN_EXPIRED" /\ ~inRequest
    THEN [raised |-> "RuntimeError", session |-> sess]
    ELSE IF StatusMachine(r) = "INVALID"
    THEN IF inRequest
         THEN [raised |-> "Unauthorized", session |-> [sess EXCEPT !.token = Absent]]
         ELSE [raised |-> "RuntimeError", session |-> sess]
    ELSE [raised |-> "none", session |-> sess]

\* Validate acting on TOKEN_EXPIRED as it does on INVALID.
ValidateExpiredAborts(r, hard_fail, sess, inRequest) ==
    IF r.sm = "TOKEN_EXPIRED" /\ ~inRequest
    THEN [raised |-> "RuntimeError", session |-> sess]
    ELSE IF r.sm \in {"TOKEN_EXPIRED", "INVALID"}
    THEN IF inRequest
         THEN [raised |-> "Unauthorized", session |-> [sess EXCEPT !.token = Absent]]
         ELSE [raised |-> "RuntimeError", session |-> sess]
    ELSE IF r.status /= 200 /\ StatusMachine(r) /= "OK" /\ hard_fail
    THEN [raised |-> "Exception", session |-> sess]
    ELSE [raised |-> "none", session |-> sess]

\* AuthServiceResponse.__init__(response, hard_fail) run with session sess.
\* inRequest: whether a request context is bound to the running thread; without
\* one, flask's request and session proxies raise RuntimeError when touched.
\* Result: the exception raised ("none" when the object is returned) and the session.
Validate(r, hard_fail, sess, inRequest) ==
    IF r.sm = "TOKEN_EXPIRED" /\ ~inRequest
    THEN [raised |-> "RuntimeError", session |-> sess]
    ELSE IF StatusMachine(r) = "INVALID"
    THEN IF inRequest
         THEN [raised |-> "Unauthorized",
               session |-> [sess EXCEPT !.token = Absent]]
         ELSE [raised |-> "RuntimeError", session |-> sess]
    ELSE IF r.status /= 200 /\ StatusMachine(r) /= "OK" /\ hard_fail
    THEN [raised |-> "Exception", session |-> sess]
    ELSE [raised |-> "none", session |-> sess]

\* ------------------------------------------------------------------ User

\* No User instance (none built yet, or __init__ raised).
NoUser == [built |-> FALSE, token |-> None, expiry |-> NoneExpiry, info |-> NoneInfo,
           authenticated |-> FALSE]

\* datetime.strptime(s, "%a, %d %b %Y %H:%M:%S %Z"): ValueError unless s matches.
StrptimeRaises(e) == e.fmt /= "rfc1123"
Strptime(e) == DateTime(e.t)

\* The comparison of line 275 turned round.
ExpiredReversed(dt, t) == dt.t > t

\* self._expiry < datetime.now()
Expired(dt, t) == dt.t < t

\* auth_response.json["user_info"] if the body has the key, else None (lines 313-316).
ExtractProfile(r) == IF r.user_info.k /= Absent THEN r.user_info ELSE NoneInfo

\* _get_info without its try/except: a transport failure leaves __init__.
GetInfoNoCatch(sess, fr) ==
    IF fr.err \/ RaisesForStatus(fr)
    THEN [raised |-> "RequestException", info |-> NoneInfo, session |-> sess]
    ELSE LET v == Validate(fr, FALSE, sess, TRUE) IN
         IF v.raised /= "none"
         THEN [raised |-> v.raised, info |-> NoneInfo, session |-> v.session]
         ELSE [raised |-> "none", info |-> ExtractProfile(fr), session |-> v.session]

\* User._get_info with the service's answer fr: the exception that leaves it
\* ("none" when it returns), the profile and the session.
GetInfo(sess, fr) ==
    IF fr.err \/ RaisesForStatus(fr)
    THEN [raised |-> "none", info |-> NoneInfo, session |-> sess]
    ELSE LET v == Validate(fr, FALSE, sess, TRUE) IN
         IF v.raised /= "none"
         THEN [raised |-> v.raised, info |-> NoneInfo, session |-> v.session]
         ELSE [raised |-> "none", info |-> ExtractProfile(fr), session |-> v.session]

\* The _go_on flag at line 284: the expiry branch, when taken, overwrites what the
\* token branch set.
GoOn(sess, t) ==
    IF sess.expiry /= AbsentExpiry
    THEN ~Expired(Strptime(sess.expiry), t)
    ELSE sess.token /= Absent

\* User.__init__ run at time t with session sess, the service answering the
\* profile fetch with fr.  Result: the exception raised ("none": the instance is
\* built), the instance, the session, whether POST /user_info was sent and
\* whether the verification thread was started.
UserInit(sess, t, fr) ==
    LET tok == IF sess.token /= Absent THEN sess.token ELSE None
        hasExp == sess.expiry /= AbsentExpiry
    IN
    IF hasExp /\ StrptimeRaises(sess.expiry)
    THEN [raised |-> "ValueError", user |-> NoUser, session |-> sess,
          fetched |-> FALSE, started |-> FALSE]
    ELSE
    LET exp == IF hasExp THEN Strptime(sess.expiry) ELSE NoneExpiry
        expired == hasExp /\ Expired(exp, t)
        sess1 == IF expired THEN [sess EXCEPT !.logged_in = PyFalse] ELSE sess
    IN
    IF ~GoOn(sess, t)
    THEN [raised |-> "none",
          user |-> [built |-> TRUE, token |-> tok, expiry |-> exp, info |-> NoneInfo,
                    authenticated |-> FALSE],
          session |-> sess1, fetched |-> FALSE, started |-> FALSE]
    ELSE
    LET g == GetInfo(sess1, fr) IN
    IF g.raised /= "none"
    THEN [raised |-> g.raised, user |-> NoUser, session |-> g.session,
          fetched |-> TRUE, started |-> FALSE]
    ELSE [raised |-> "none",
          user |-> [built |-> TRUE, token |-> tok, expiry |-> exp, info |-> g.info,
                    authenticated |-> TRUE],
          session |-> g.session, fetched |-> TRUE, started |-> TRUE]

\* _get_user without the test of g: every access builds a User.
GetUserNoMemo(cached, u, sess, t, fr) == UserInit(sess, t, fr)

\* _get_user inside a request: the User stored in g when there is one (cached),
\* else a new User, which is stored.  Result as for UserInit.
GetUser(cached, u, sess, t, fr) ==
    IF cached
    THEN [raised |-> "none", user |-> u, session |-> sess, fetched |-> FALSE,
          started |-> FALSE]
    ELSE UserInit(sess, t, fr)

\* is_authenticated() that marks a session without logged_in as logged in.
IsAuthenticatedMarksIn(u, sess) ==
    LET sess1 == IF sess.logged_in = Absent
                 THEN [sess EXCEPT !.logged_in = PyTrue]
                 ELSE sess
    IN [value |-> IF sess1.logged_in = PyFalse THEN FALSE ELSE u.authenticated,
        session |-> sess1]

\* is_authenticated() that answers with the instance's flag alone.
IsAuthenticatedFlagOnly(u, sess) ==
    [value |-> u.authenticated,
     session |-> IF sess.logged_in = Absent THEN [sess EXCEPT !.logged_in = PyFalse]
                 ELSE sess]

\* User.is_authenticated() inside a request: the value returned and the session.
IsAuthenticated(u, sess) ==
    LET sess1 == IF sess.logged_in = Absent
                 THEN [sess EXCEPT !.logged_in = PyFalse]
                 ELSE sess
    IN [value |-> IF sess1.logged_in = PyFalse THEN FALSE ELSE u.authenticated,
        session |-> sess1]

\* A username property that reads the wrong field.
UsernameFromToken(u) == u.token

\* The username and role properties.
Username(u) == IF u.info.k = "dict" THEN u.info.username ELSE None
Role(u) == IF u.info.k = "dict" THEN u.info.role ELSE RoleNone

\* int(role): ValueError for a string that is not a number.
IntRaises(role) == role.k = "word"
IntOf(role) == role.n

\* ------------------------------------------------------------------ requests and responses

\* What a request returned to the framework.
Response(kind, next, required, actual) ==
    [kind |-> kind, next |-> next, required |-> required, actual |-> actual]
NoResponse == Response("none", None, 0, RoleNone)

\* redirect(url_for("login", next=request.url))
RedirectToLogin(url) == Response("redirect_login", url, 0, RoleNone)

\* The guarded request in progress or last handled; cached: g.user is set, and
\* is the instance in user.
IdleReq == [pc |-> "idle", guard |-> "none", url |-> None, min_role |-> 0, redirect_to |-> None,
            cached |-> FALSE]

Guards == {"login_required", "role_required"}
MinRoles == {MaxRole - 1, MaxRole}
Fallbacks == {None, "index"}

\* No call to the service was made.
NoSvc == [err |-> FALSE, status |-> 0, sm |-> Absent, user_info |-> AbsentInfo,
          expiry |-> AbsentExpiry]

\* The last operation: its kind, the session it started from, the time it ran at,
\* the service's answer it got, its argument, the exception that left it ("none"
\* when it returned) and the authenticated flag it ended with (of the User it
\* worked on; for Decide, the value of is_authenticated()).
Op(kind, svc, arg, raised, auth) ==
    [kind |-> kind, pre |-> session, at |-> now, svc |-> svc, arg |-> arg,
     raised |-> raised, auth |-> auth]
NoOp == [kind |-> "none", pre |-> EmptySession, at |-> 0, svc |-> NoSvc, arg |-> None,
         raised |-> "none", auth |-> FALSE]

\* A request has ended: no thread's User is the current request's any more.
Disown(ths) == [i \in 1..Len(ths) |-> [ths[i] EXCEPT !.own = FALSE]]

RemoveAt(ths, i) == SubSeq(ths, 1, i - 1) \o SubSeq(ths, i + 1, Len(ths))

\* ------------------------------------------------------------------ the guards

\* login_required with the test dropped: the handler always runs.
LoginRequiredNoCheck(url, auth) == Response("handler", None, 0, RoleNone)

\* login_required.decorated_function, after user.is_authenticated() returned auth.
LoginRequiredOutcome(url, auth) ==
    IF ~auth THEN RedirectToLogin(url) ELSE Response("handler", None, 0, RoleNone)

\* role_required with > in place of >=.
RoleRequiredStrict(u, url, min_role, redirect_to, auth) ==
    IF ~auth THEN RedirectToLogin(url)
    ELSE IF Role(u) /= RoleNone /\ IntRaises(Role(u))
    THEN Response("error500", None, 0, RoleNone)
    ELSE IF Role(u) /= RoleNone /\ IntOf(Role(u)) > min_role
    THEN Response("handler", None, 0, RoleNone)
    ELSE IF redirect_to /= None
    THEN Response("redirect_fallback", redirect_to, 0, RoleNone)
    ELSE Response("forbidden403", None, min_role, Role(u))

\* role_required.wrapper, after user.is_authenticated() returned auth.
RoleRequiredOutcome(u, url, min_role, redirect_to, auth) ==
    IF ~auth THEN RedirectToLogin(url)
    ELSE IF Role(u) /= RoleNone /\ IntRaises(Role(u))
    THEN Response("error500", None, 0, RoleNone)
    ELSE IF Role(u) /= RoleNone /\ IntOf(Role(u)) >= min_role
    THEN Response("handler", None, 0, RoleNone)
    ELSE IF redirect_to /= None
    THEN Response("redirect_fallback", redirect_to, 0, RoleNone)
    ELSE Response("forbidden403", None, min_role, Role(u))

\* The response of a request whose handler let exception e escape.
ErrorResponse(e) ==
    IF e = "Unauthorized" THEN Response("unauthorized401", None, 0, RoleNone)
    ELSE Response("error500", None, 0, RoleNone)

\* ------------------------------------------------------------------ actions

Init ==
    /\ now = 0
    /\ session = EmptySession
    /\ user = NoUser
    /\ threads = <<>>
    /\ req = IdleReq
    /\ op = NoOp
    /\ resp = NoResponse
    /\ last_next = Absent

\* The wall clock advances (between requests).
Tick ==
    /\ req.pc = "idle"
    /\ now < MaxTime
    /\ now' = now + 1
    /\ UNCHANGED <<session, user, threads, req, op, resp, last_next>>

\* A request to a guarded route arrives: the guard builds the User
\* (login_required through the current_user proxy, role_required with User()).
BeginGuard(g, url, mr, rt, fr) ==
    /\ req.pc = "idle"
    /\ LET r == IF g = "login_required"
                THEN GetUser(FALSE, user, session, now, fr)
                ELSE UserInit(session, now, fr)
       IN
       /\ r.started => Len(threads) < MaxThreads
       /\ session' = r.session
       /\ user' = r.user
       /\ threads' = IF r.started
                     THEN Append(threads, [token |-> r.user.token, own |-> TRUE])
                     ELSE threads
       /\ req' = [pc |-> IF r.raised = "none" THEN "constructed" ELSE "done",
                  guard |-> g, url |-> url, min_role |-> mr, redirect_to |-> rt,
                  cached |-> (g = "login_required" /\ r.raised = "none")]
       /\ resp' = IF r.raised = "none" THEN NoResponse ELSE ErrorResponse(r.raised)
       /\ op' = Op("construct", IF r.fetched THEN fr ELSE NoSvc, g, r.raised,
                   r.user.authenticated)
    /\ UNCHANGED <<now, last_next>>

\* The guard calls is_authenticated() and answers.
Decide ==
    /\ req.pc = "constructed"
    /\ LET a == IsAuthenticated(user, session) IN
       /\ session' = a.session
       /\ resp' = IF req.guard = "login_required"
                  THEN LoginRequiredOutcome(req.url, a.value)
                  ELSE RoleRequiredOutcome(user, req.url, req.min_role, req.redirect_to,
                                           a.value)
       /\ op' = Op("decide", NoSvc, req.guard, "none", a.value)
    /\ req' = [req EXCEPT !.pc = "done"]
    /\ UNCHANGED <<now, user, threads, last_next>>

\* _verify_token whose failed round does not end the thread.
VerifyTokenSurvives(vr, sess) ==
    IF vr.err \/ RaisesForStatus(vr)
    THEN [authenticated |-> FALSE, raised |-> "none"]
    ELSE LET v == Validate(vr, FALSE, sess, FALSE) IN
         IF v.raised /= "none"
         THEN [authenticated |-> TRUE, raised |-> v.raised]
         ELSE IF StatusMachine(vr) /= "OK"
         THEN [authenticated |-> FALSE, raised |-> "RuntimeError"]
         ELSE [authenticated |-> TRUE, raised |-> "none"]

\* User._verify_token on the verification thread, the service answering vr.  The
\* thread has no request context, so the writes to session (and url_for, request)
\* raise RuntimeError after self._authenticated was assigned.  Result: the
\* instance's flag and the exception that ends the thread ("none": it sleeps and
\* goes round again).
VerifyToken(vr, sess) ==
    IF vr.err \/ RaisesForStatus(vr)
    THEN [authenticated |-> FALSE, raised |-> "RuntimeError"]
    ELSE LET v == Validate(vr, FALSE, sess, FALSE) IN
         IF v.raised /= "none"
         THEN [authenticated |-> TRUE, raised |-> v.raised]
         ELSE IF StatusMachine(vr) /= "OK"
         THEN [authenticated |-> FALSE, raised |-> "RuntimeError"]
         ELSE [authenticated |-> TRUE, raised |-> "none"]

\* The answers of POST /verify a round can get: the round reads no expiry, and
\* with status 500 no body.
RoundResponses ==
    {vr \in VerifyResponses : vr.expiry = AbsentExpiry /\ (vr.status = 500 => vr.sm = "OK")}

\* One round of verify_periodically of thread i.  While a request is in progress
\* the round of the thread that closes over the request's User races with the
\* guard (a round of another thread touches nothing the request reads, so it is
\* taken before or after the request).
Round(i, vr) ==
    /\ i \in 1..Len(threads)
    /\ req.pc /= "done"
    /\ req.pc = "constructed" => threads[i].own
    /\ LET v == VerifyToken(vr, session) IN
       /\ threads' = IF v.raised = "none" THEN threads ELSE RemoveAt(threads, i)
       /\ user' = IF threads[i].own THEN [user EXCEPT !.authenticated = v.authenticated]
                  ELSE user
       /\ op' = Op("round", vr, threads[i].token, v.raised, v.authenticated)
    /\ UNCHANGED <<now, session, req, resp, last_next>>

\* bool(x) of a session or JSON value.
Truthy(x) == x /= Absent /\ x /= None

\* A callback that always redirects to the root.
RedirectTargetRoot(sess) == "/"

\* The target of the redirect that ends a successful /auth_callback.
RedirectTarget(sess) == IF Truthy(sess.next) THEN sess.next ELSE "/"

\* GET /auth_callback?token=tok, the service answering the verify call with vr.
AuthCallback(tok, vr) ==
    /\ req.pc = "idle"
    /\ IF vr.err
       THEN /\ session' = session
            /\ resp' = ErrorResponse("ConnectionError")
       ELSE LET v == Validate(vr, TRUE, session, TRUE) IN
            IF v.raised /= "none"
            THEN /\ session' = v.session
                 /\ resp' = Response("inline_error", None, 0, RoleNone)
            ELSE /\ session' = [v.session EXCEPT
                                  !.expiry = IF vr.expiry /= AbsentExpiry THEN vr.expiry ELSE @,
                                  !.token = tok,
                                  !.logged_in = PyTrue]
                 /\ resp' = Response("redirect", RedirectTarget(session), 0, RoleNone)
    /\ op' = Op("auth_callback", vr, tok, IF vr.err THEN "ConnectionError" ELSE "none", FALSE)
    /\ req' = [IdleReq EXCEPT !.pc = "done"]
    /\ UNCHANGED <<now, user, threads, last_next>>

\* GET /login?next=nxt (nxt is None when the parameter is missing).
Login(nxt) ==
    /\ req.pc = "idle"
    /\ session' = [session EXCEPT !.next = nxt]
    /\ resp' = Response("redirect_authorize", None, 0, RoleNone)
    /\ op' = Op("login", NoSvc, nxt, "none", FALSE)
    /\ req' = [IdleReq EXCEPT !.pc = "done"]
    /\ last_next' = nxt
    /\ UNCHANGED <<now, user, threads>>

\* The answers of POST /logout: only the status is read.
LogoutResponses == {ConnErr} \cup
    {HttpResp(c, Absent, AbsentInfo, AbsentExpiry) : c \in StatusCodes}

\* GET /logout, the service answering lr when a token is sent.
Logout(lr) ==
    /\ req.pc = "idle"
    /\ LET sent == Truthy(session.token)
           failed == sent /\ (lr.err \/ RaisesForStatus(lr))
           u == UserInit(EmptySession, now, NoSvc)
       IN
       /\ session' = IF failed THEN session
                     ELSE [u.session EXCEPT !.token = None, !.logged_in = PyFalse]
       /\ user' = IF failed THEN NoUser
                  ELSE [u.user EXCEPT !.authenticated = FALSE, !.token = None,
                                      !.expiry = NoneExpiry, !.info = NoneInfo]
       /\ op' = Op("logout", IF sent THEN lr ELSE NoSvc, None, "none", FALSE)
    /\ resp' = Response("redirect_index", None, 0, RoleNone)
    /\ req' = [IdleReq EXCEPT !.pc = "done"]
    /\ UNCHANGED <<now, threads, last_next>>

\* The answers of POST /long_token: the body's token and expiry only fill the
\* LongToken returned, and with status 500 no body is read.
LongTokenResponses == {ConnErr}
    \cup {HttpResp(200, s, AbsentInfo, AbsentExpiry) : s \in StatusTags}
    \cup {HttpResp(500, "OK", AbsentInfo, AbsentExpiry)}

\* The handler of a request that login_required let through calls
\* current_user.get_long_token(), the service answering lr.
GetLongToken(lr) ==
    /\ req.pc = "done"
    /\ req.guard = "login_required"
    /\ resp.kind = "handler"
    /\ op.kind = "decide"
    /\ LET v == IF lr.err \/ RaisesForStatus(lr)
                THEN [raised |-> "none", session |-> session]
                ELSE Validate(lr, FALSE, session, TRUE)
       IN
       /\ session' = v.session
       /\ resp' = IF v.raised = "none" THEN resp ELSE ErrorResponse(v.raised)
       /\ op' = Op("long_token", lr, user.token, v.raised, user.authenticated)
    /\ UNCHANGED <<now, user, threads, req, last_next>>

\* The report_incident call of a setter is answered, or fails in transport.
ReportResponses == {ConnErr} \cup
    {HttpResp(c, Absent, AbsentInfo, AbsentExpiry) : c \in StatusCodes}

Attributes == {"username", "email", "role", "permissions"}
Values == {"x"}

\* A setter that stores what it is given.
AssignStores(u, attr, value, ir) ==
    IF u.token = None
    THEN [raised |-> "Exception", user |-> u, reported |-> FALSE]
    ELSE [raised |-> IF ir.err THEN "ConnectionError" ELSE "none",
          user |-> [u EXCEPT !.info = Info(value, Role(u))], reported |-> TRUE]

\* The setters of username, email, role and permissions (one body four times):
\* the exception that leaves the setter, the instance afterwards and whether
\* POST /report_incident was sent.
Assign(u, attr, value, ir) ==
    IF u.token = None
    THEN [raised |-> "Exception", user |-> u, reported |-> FALSE]
    ELSE [raised |-> IF ir.err THEN "ConnectionError" ELSE "none",
          user |-> u, reported |-> TRUE]

\* The handler of a guarded request assigns to an attribute of current_user.
SetAttribute(attr, value, ir) ==
    /\ req.pc = "done"
    /\ req.cached
    /\ resp.kind = "handler"
    /\ op.kind \in {"decide", "set"}
    /\ LET a == Assign(user, attr, value, ir) IN
       /\ user' = a.user
       /\ resp' = IF a.raised = "none" THEN resp ELSE ErrorResponse(a.raised)
       /\ op' = Op("set", IF a.reported THEN ir ELSE NoSvc, attr, a.raised,
                   a.user.authenticated)
    /\ UNCHANGED <<now, session, threads, req, last_next>>

\* The request ends: the response is sent and the request's objects (g.user
\* among them) are dropped.  A thread the request started runs on.
EndRequest ==
    /\ req.pc = "done"
    /\ req' = IdleReq
    /\ user' = NoUser
    /\ resp' = NoResponse
    /\ op' = NoOp
    /\ threads' = Disown(threads)
    /\ UNCHANGED <<now, session, last_next>>

\* The answers the service can give to this request's profile fetch: none is
\* asked for when User.__init__ does not get to _get_info.
FetchAnswers ==
    IF (session.expiry /= AbsentExpiry /\ StrptimeRaises(session.expiry))
         \/ ~GoOn(session, now)
    THEN {NoSvc} ELSE InfoResponses

\* The answers to the profile fetch of an access to current_user: none is asked
\* for when g.user is set.
AccessAnswers == IF req.cached THEN {NoSvc} ELSE FetchAnswers

\* The handler of a guarded request reads current_user (the proxy calls
\* _get_user).  After role_required, whose wrapper built a User of its own, g.user
\* is not set yet.
AccessCurrentUser(fr) ==
    /\ req.pc = "done"
    /\ resp.kind = "handler"
    /\ op.kind \in {"decide", "access"}
    /\ LET r == GetUser(req.cached, user, session, now, fr) IN
       /\ r.started => Len(threads) < MaxThreads
       /\ session' = r.session
       /\ user' = r.user
       /\ threads' = IF r.user = user /\ ~r.fetched THEN threads
                     ELSE IF r.started
                     THEN Append(Disown(threads), [token |-> r.user.token, own |-> TRUE])
                     ELSE Disown(threads)
       /\ req' = [req EXCEPT !.cached = (r.raised = "none")]
       /\ resp' = IF r.raised = "none" THEN resp ELSE ErrorResponse(r.raised)
       /\ op' = Op("access", IF r.fetched THEN fr ELSE NoSvc, req.guard, r.raised,
                   r.user.authenticated)
    /\ UNCHANGED <<now, last_next>>

Next ==
    \/ Tick
    \/ \E url \in Urls, fr \in FetchAnswers :
          BeginGuard("login_required", url, 0, None, fr)
    \/ \E url \in Urls, mr \in MinRoles, rt \in Fallbacks, fr \in FetchAnswers :
          BeginGuard("role_required", url, mr, rt, fr)
    \/ Decide
    \/ \E i \in 1..Len(threads), vr \in RoundResponses : Round(i, vr)
    \/ \E tok \in Tokens, vr \in VerifyResponses : AuthCallback(tok, vr)
    \/ \E nxt \in Urls \cup {None} : Login(nxt)
    \/ \E lr \in LogoutResponses : Logout(lr)
    \/ \E lr \in LongTokenResponses : GetLongToken(lr)
    \/ \E attr \in Attributes, value \in Values, ir \in ReportResponses :
          SetAttribute(attr, value, ir)
    \/ \E fr \in AccessAnswers : AccessCurrentUser(fr)
    \/ EndRequest

Spec == Init /\ [][Next]_vars

\* ------------------------------------------------------------------ other specifications

\* A session record written by a test or by the host application: any record.
InitFixture ==
    /\ now = 0
    /\ session \in Sessions
    /\ last_next = session.next
    /\ user = NoUser
    /\ threads = <<>>
    /\ req = IdleReq
    /\ op = NoOp
    /\ resp = NoResponse

SpecFixture == InitFixture /\ [][Next]_vars

\* The bodies AuthServiceResponse can be given: every status, tag and profile.
ValidateInputs ==
    {HttpResp(c, s, ui, AbsentExpiry) :
        c \in StatusCodes, s \in StatusTags \cup {"ERROR"}, ui \in Infos \cup {AbsentInfo}}

\* AuthServiceResponse(response, hard_fail) called inside a request, then the
\* profile extracted from the object when one is returned.
ValidateCall(r, hard_fail) ==
    /\ req.pc = "idle"
    /\ LET v == Validate(r, hard_fail, session, TRUE) IN
       /\ session' = v.session
       /\ user' = [NoUser EXCEPT !.info = IF v.raised = "none" THEN ExtractProfile(r)
                                          ELSE NoneInfo]
       /\ resp' = IF v.raised = "none" THEN NoResponse ELSE ErrorResponse(v.raised)
       /\ op' = Op("validate", r, IF hard_fail THEN PyTrue ELSE PyFalse, v.raised, FALSE)
    /\ req' = [IdleReq EXCEPT !.pc = "done"]
    /\ UNCHANGED <<now, threads, last_next>>

NextValidate ==
    \/ \E r \in ValidateInputs, hf \in BOOLEAN : ValidateCall(r, hf)
    \/ EndRequest

SpecValidate == InitFixture /\ [][NextValidate]_vars

\* ------------------------------------------------------------------ claims

\* The response reached AuthServiceResponse: no transport failure, and no
\* raise_for_status before it except in /auth_callback, which has none.
Validated ==
    \/ op.kind = "auth_callback" /\ ~op.svc.err
    \/ op.kind \in {"construct", "long_token", "round"} /\ op.svc /= NoSvc
          /\ ~op.svc.err /\ ~RaisesForStatus(op.svc)

Rfc(t) == [fmt |-> "rfc1123", t |-> t]

\* C1: after a User is constructed, authenticated = true implies that its token
\* is non-empty and its expiry is a parsed timestamp strictly after the
\* construction time.
C1_AuthenticatedHasTokenAndFutureExpiry ==
    (op.kind = "construct" /\ user.built /\ user.authenticated)
        => /\ user.token \in Tokens
           /\ user.expiry.fmt = "datetime"
           /\ user.expiry.t > op.at

\* C2: a User constructed from a session without a token key is not
\* authenticated, has no profile, and neither a profile fetch nor a
\* verification thread was started.
C2_NoTokenNotAuthenticated ==
    (op.kind = "construct" /\ op.pre.token = Absent)
        => /\ ~user.authenticated
           /\ user.info = NoneInfo
           /\ op.svc = NoSvc
           /\ \A i \in 1..Len(threads) : ~threads[i].own

\* C3: a User constructed from a session with a token and an expiry in the past
\* is built, not authenticated, without profile, and the session's logged_in is
\* false afterwards.
C3_ExpiredNotAuthenticated ==
    (op.kind = "construct" /\ op.pre.token /= Absent
        /\ op.pre.expiry.fmt = "rfc1123" /\ op.pre.expiry.t < op.at)
        => /\ op.raised = "none"
           /\ user.built
           /\ ~user.authenticated
           /\ user.info = NoneInfo
           /\ session.logged_in = PyFalse

C3_Witness ==
    /\ op.kind = "construct"
    /\ op.pre.token \in Tokens
    /\ op.pre.expiry = Rfc(0)
    /\ op.at = 1
    /\ op.pre.logged_in = PyTrue
    /\ session.logged_in = PyFalse
    /\ user.built /\ ~user.authenticated

\* C4: constructing a User from a session with a token and an expiry in the
\* future sends the profile fetch; when the fetch fails in transport (no
\* connection, or an HTTP error status) the User is built with profile None and
\* authenticated = true.
C4_FetchFailureKeepsAuthenticated ==
    (op.kind = "construct" /\ op.pre.token /= Absent
        /\ op.pre.expiry.fmt = "rfc1123" /\ op.pre.expiry.t > op.at)
        => /\ op.svc /= NoSvc
           /\ (op.svc.err \/ RaisesForStatus(op.svc))
                 => /\ op.raised = "none"
                    /\ user.built
                    /\ user.info = NoneInfo
                    /\ user.authenticated
                    /\ \E i \in 1..Len(threads) : threads[i].own

C4_Witness ==
    /\ op.kind = "construct"
    /\ op.pre.token \in Tokens
    /\ op.pre.expiry = Rfc(1)
    /\ op.at = 0
    /\ op.svc.err
    /\ user.built /\ user.authenticated /\ user.info = NoneInfo

\* C5: whenever a response with status_machine "INVALID" is validated, on every
\* path (profile fetch, re-verification, /auth_callback, long token), the
\* session's token is removed and the request ends with 401.
C5_InvalidClearsTokenAndAborts ==
    (Validated /\ op.svc.sm = "INVALID")
        => /\ session.token = Absent
           /\ resp.kind = "unauthorized401"

C7_LoginRequired ==
    (op.kind = "decide" /\ req.guard = "login_required")
        => LET auth == op.pre.logged_in = PyTrue /\ user.authenticated IN
           /\ auth => resp.kind = "handler"
           /\ ~auth => resp = Response("redirect_login", req.url, 0, RoleNone)
           /\ op.pre.token = Absent /\ op.pre.expiry = AbsentExpiry
                 => resp.kind = "redirect_login"

C7_Witness ==
    /\ op.kind = "decide"
    /\ req.guard = "login_required"
    /\ op.pre = EmptySession
    /\ resp = Response("redirect_login", "/a", 0, RoleNone)

\* C8: role_required(min_role) runs the handler iff the user is authenticated
\* and int(role) >= min_role; an authenticated user with a lower or missing role
\* is redirected to the fallback route when one is given and otherwise gets 403
\* with the required and the actual role.
C8_RoleRequired ==
    (op.kind = "decide" /\ req.guard = "role_required")
        => LET auth == op.pre.logged_in = PyTrue /\ user.authenticated
               role == IF user.info.k = "dict" THEN user.info.role ELSE RoleNone
               numeric == role.k \in {"int", "str"}
           IN
           /\ resp.kind = "handler" <=> (auth /\ numeric /\ role.n >= req.min_role)
           /\ (auth /\ (role.k = None \/ (numeric /\ role.n < req.min_role)))
                 => IF req.redirect_to /= None
                    THEN resp = Response("redirect_fallback", req.redirect_to, 0, RoleNone)
                    ELSE resp = Response("forbidden403", None, req.min_role, role)

C8_Witness ==
    /\ op.kind = "decide"
    /\ req.guard = "role_required"
    /\ req.min_role = 3
    /\ user.info.k = "dict" /\ user.info.role = [k |-> "int", n |-> 2]
    /\ resp = Response("forbidden403", None, 3, [k |-> "int", n |-> 2])

\* The session is just a token and an expiry, in the fixed format and in the future.
JustTokenAndFutureExpiry ==
    /\ op.pre.token \in Tokens
    /\ op.pre.expiry.fmt = "rfc1123" /\ op.pre.expiry.t > op.at
    /\ op.pre.logged_in = Absent
    /\ op.pre.next = Absent

\* The profile fetch was answered with status_machine "OK" and a user_info object.
AnsweredOkWithProfile ==
    /\ op.svc /= NoSvc /\ ~op.svc.err /\ op.svc.status = 200
    /\ op.svc.sm = "OK" /\ op.svc.user_info.k = "dict"

\* C9 as stated: for a session of just a token and a future expiry, the service
\* answering "OK" with a user_info object, the User reports authenticated = true
\* (is_authenticated()) and its username is user_info.username.
C9_Original ==
    (op.kind = "construct" /\ JustTokenAndFutureExpiry /\ AnsweredOkWithProfile)
        => /\ IsAuthenticated(user, session).value
           /\ Username(user) = op.svc.user_info.username

\* C9 amended: for a session with a token and a future expiry, the service
\* answering "OK" with a user_info object, the User's authenticated flag is true
\* and its username is user_info.username; is_authenticated() is true exactly
\* when the session also has logged_in = true.
C9_FlagAndUsername ==
    (op.kind = "construct" /\ op.pre.token \in Tokens
        /\ op.pre.expiry.fmt = "rfc1123" /\ op.pre.expiry.t > op.at
        /\ AnsweredOkWithProfile)
        => /\ user.built /\ user.authenticated
           /\ Username(user) = op.svc.user_info.username
           /\ IsAuthenticated(user, session).value <=> op.pre.logged_in = PyTrue

C9_Witness ==
    /\ op.kind = "construct"
    /\ JustTokenAndFutureExpiry
    /\ AnsweredOkWithProfile
    /\ user.authenticated
    /\ Username(user) = "b"
    /\ ~IsAuthenticated(user, session).value

\* C10: /auth_callback stores the received token and sets logged_in only when
\* the verify call succeeded (HTTP 200 with "OK"); for every other outcome it
\* returns the inline error and the session does not become logged in.
C10_CallbackStoresOnlyOnSuccess ==
    (op.kind = "auth_callback"
        /\ ~(~op.svc.err /\ op.svc.status = 200 /\ op.svc.sm = "OK"))
        => /\ resp.kind = "inline_error"
           /\ session.logged_in = PyTrue => op.pre.logged_in = PyTrue
           /\ session.token = op.arg => op.pre.token = op.arg

\* A call to the service failed in transport: no connection, or an HTTP error
\* status that raise_for_status turns into an exception.
TransportFailure ==
    op.svc /= NoSvc /\ (op.svc.err \/ op.svc.status >= 400)

\* C11: after /logout returns, whatever the service answered to the logout call,
\* the session holds no usable token, its logged_in is not true, and the current
\* user's token, expiry and profile are empty and its authenticated flag is false.
C11_LogoutClearsSessionAndUser ==
    op.kind = "logout"
        => /\ ~Truthy(session.token)
           /\ session.logged_in /= PyTrue
           /\ user.token = None
           /\ user.expiry = NoneExpiry
           /\ user.info = NoneInfo
           /\ ~user.authenticated

\* C12: no transport failure of a call to the auth service leaves a request as an
\* exception: after a profile fetch, the verify call of /auth_callback or the
\* logout call failed in transport, the request goes on or ends without a server
\* error, and a User built by it has no profile.
C12_TransportFailureNeverPropagates ==
    (op.kind \in {"construct", "auth_callback", "logout"} /\ TransportFailure)
        => /\ op.raised = "none"
           /\ resp.kind \notin {"error500", "unauthorized401"}
           /\ op.kind = "construct" => (user.built /\ user.info = NoneInfo)

C14_FailedRoundLogsOut ==
    (op.kind = "round" /\ (TransportFailure \/ op.svc.sm /= "OK"))
        => /\ ~op.auth
           /\ session.logged_in = PyFalse

\* C15: a re-verification loop ends only in a round that leaves the
\* authenticated flag of its User false; the end of a request and /logout end
\* none.
C15_LoopEndsOnlyWhenFlagFalse ==
    [][Len(threads') < Len(threads) => (op'.kind = "round" /\ ~op'.auth)]_vars

\* C16 as stated: every read of the current user in a request builds a fresh
\* User, so each read by an authenticated request sends a profile fetch and
\* starts a verification loop.
C16_Original ==
    [][(op'.kind = "access" /\ user.authenticated /\ op'.raised = "none")
          => /\ op'.svc /= NoSvc
             /\ Len(threads') = Len(threads) + 1]_vars

\* C16 amended: within one request the current user is memoized in g.  A read
\* when g.user is set returns that instance: no fetch, no loop, nothing changes.
\* After login_required, whose test is itself such a read, g.user is set.  Only a
\* read when g.user is not set (the first one after role_required, which builds
\* a User of its own) builds a User, with one fetch and one loop when it is
\* authenticated, and stores it.
C16_CurrentUserIsMemoized ==
    [][op'.kind = "access"
          => /\ req.guard = "login_required" => req.cached
             /\ req.cached
                   => /\ user' = user
                      /\ threads' = threads
                      /\ session' = session
                      /\ op'.svc = NoSvc
             /\ (~req.cached /\ op'.raised = "none")
                   => /\ req'.cached
                      /\ user'.built
                      /\ user'.authenticated
                            => (op'.svc /= NoSvc /\ Len(threads') = Len(threads) + 1)]_vars

C16_Witness ==
    /\ op.kind = "access"
    /\ req.guard = "login_required"
    /\ req.cached
    /\ user.authenticated
    /\ op.svc = NoSvc
    /\ Len(threads) = 1

\* /auth_callback logged the session in and redirected.
CallbackSucceeded == op.kind = "auth_callback" /\ resp.kind = "redirect"

\* C17 as stated: after a successful /auth_callback the redirect target is the
\* URL the most recent /login of this session received as next, or "/" when
\* that /login carried no next.
C17_Original ==
    (CallbackSucceeded /\ last_next /= Absent)
        => resp.next = (IF last_next /= None THEN last_next ELSE "/")

\* C17 amended: after a successful /auth_callback the redirect target is the
\* next stashed in the session, or "/" when the session holds none.  The stash
\* is what the most recent /login received, until a /logout whose service call
\* did not fail clears it with the rest of the session.
C17_RedirectsToStashedNext ==
    /\ CallbackSucceeded
          => resp.next = (IF op.pre.next \in Urls THEN op.pre.next ELSE "/")
    /\ session.next \in {last_next, Absent}
    /\ op.kind = "login" => (session.next = op.arg /\ last_next = op.arg)
    /\ (op.kind = "logout" /\ ~TransportFailure) => session.next = Absent
    /\ (op.kind = "logout" /\ TransportFailure) => session.next = op.pre.next

C17_Witness ==
    /\ CallbackSucceeded
    /\ last_next \in Urls
    /\ op.pre.next = last_next
    /\ resp.next = last_next
    /\ session.logged_in = PyTrue

\* C18: when /auth_callback ends with the inline error, the session's token,
\* expiry and logged_in are what they were before the callback.
C18_FailedCallbackLeavesSession ==
    (op.kind = "auth_callback" /\ resp.kind = "inline_error")
        => /\ session.token = op.pre.token
           /\ session.expiry = op.pre.expiry
           /\ session.logged_in = op.pre.logged_in

\* C19: User construction fails with a parse error if and only if the session
\* has a token and an expiry that does not match the timestamp format; a
\* session without a token always yields a built, unauthenticated User.
C19_ParseErrorIffTokenAndBadExpiry ==
    op.kind = "construct"
        => /\ op.raised = "ValueError"
                 <=> (op.pre.token /= Absent /\ op.pre.expiry.fmt = "iso")
           /\ op.pre.token = Absent
                 => (op.raised = "none" /\ user.built /\ ~user.authenticated)

\* C20: when the profile fetch of a User construction is answered with HTTP 200
\* and status_machine "TOKEN_EXPIRED", nothing is raised and no response is
\* returned to the framework (the guard goes on), the User is built with its
\* authenticated flag true, and the session's token and logged_in are unchanged.
C20_TokenExpiredIsAdvisory ==
    (op.kind = "construct" /\ op.svc.status = 200 /\ op.svc.sm = "TOKEN_EXPIRED")
        => /\ op.raised = "none"
           /\ resp = NoResponse
           /\ req.pc = "constructed"
           /\ user.built /\ user.authenticated
           /\ session.token = op.pre.token
           /\ session.logged_in = op.pre.logged_in

C20_Witness ==
    /\ op.kind = "construct"
    /\ op.svc.status = 200
    /\ op.svc.sm = "TOKEN_EXPIRED"
    /\ op.pre.token \in Tokens
    /\ op.pre.logged_in = PyTrue
    /\ session = op.pre
    /\ user.authenticated
    /\ req.pc = "constructed"

\* C21: is_authenticated() called inside a request returns true only if the
\* session's logged_in is true, and logged_in becomes true only in a
\* /auth_callback that got past validation and redirected: no User
\* construction, guard check, re-verification round or logout sets it to true.
C21_LoggedInOnlyByCallback ==
    [][/\ (op'.kind = "decide" /\ op'.auth) => session.logged_in = PyTrue
       /\ (session'.logged_in = PyTrue /\ session.logged_in /= PyTrue)
             => (op'.kind = "auth_callback" /\ resp'.kind = "redirect")]_vars

C21_Witness ==
    /\ CallbackSucceeded
    /\ op.pre.logged_in = PyFalse
    /\ session.logged_in = PyTrue
    /\ session.token = op.arg

\* C22: a /logout whose service call did not fail leaves logged_in false;
\* logged_in then stays false until a /auth_callback that redirects; and while
\* it is false is_authenticated() returns false and both guards answer with the
\* redirect to login instead of the handler.
C22_LoggedOutUntilCallback ==
    [][/\ (op'.kind = "logout" /\ ~TransportFailure') => session'.logged_in = PyFalse
       /\ (session.logged_in = PyFalse /\ session'.logged_in /= PyFalse)
             => (op'.kind = "auth_callback" /\ resp'.kind = "redirect")
       /\ (op'.kind = "decide" /\ session.logged_in = PyFalse)
             => /\ ~op'.auth
                /\ resp' = Response("redirect_login", req.url, 0, RoleNone)]_vars

C22_Witness ==
    /\ op.kind = "decide"
    /\ req.guard = "role_required"
    /\ op.pre.token = None
    /\ op.pre.logged_in = PyFalse
    /\ user.authenticated
    /\ ~op.auth
    /\ resp.kind = "redirect_login"

\* The step works on the User instance that was current before it (it builds no
\* new one).
SameInstance ==
    \/ op'.kind \in {"decide", "round", "long_token", "set"}
    \/ op'.kind = "access" /\ req.cached

\* C23: the authenticated flag of one User instance is monotone: a step on the
\* same instance never takes it from false to true, and the flag of the current
\* instance is true only from a construction on.
C23_FlagMonotone ==
    [][/\ (SameInstance /\ user.built /\ ~user.authenticated) => ~user'.authenticated
       /\ (user'.authenticated /\ ~user.authenticated)
             => op'.kind \in {"construct", "access"}
       /\ op'.kind = "logout" => ~user'.authenticated]_vars

C23_Witness ==
    /\ op.kind = "decide"
    /\ user.built
    /\ ~user.authenticated
    /\ op.pre.logged_in = PyTrue
    /\ op.pre.token \in Tokens
    /\ GoOn(op.pre, op.at)
    /\ resp.kind = "redirect_login"

\* C24: after a /auth_callback that stored the token, the session's expiry is
\* the expiry the service returned with the answer for that token, and not one
\* left over from an earlier login.
C24_ExpiryBelongsToStoredToken ==
    CallbackSucceeded => session.expiry = op.svc.expiry

====
